---- MODULE Spec2Model ----
(***************************************************************************)
(* EyeClass: registration of students (app.py, register_student.py), the   *)
(* live class session (main.py), the read-only dashboard                   *)
(* (dashboard_app.py), all sharing students.csv, class_report.csv and the  *)
(* students/ image folder.                                                 *)
(*                                                                         *)
(* Text values are sequences of one-character strings, so that strip(),    *)
(* lower(), isdigit() and splitext() are computed, not assumed.  The        *)
(* alphabet has no comma, quote or line break, so csv.DictWriter writes    *)
(* every field verbatim and csv.DictReader reads it back verbatim; a CSV   *)
(* file is modelled as the sequence of its data rows (records).            *)
(***************************************************************************)
EXTENDS Integers, Sequences, FiniteSets, TLC

(***************************************************************************)
(* Bounds of the model.                                                    *)
(***************************************************************************)
MaxStudents == 3      \* rows of students.csv
MaxSessions == 2      \* runs of main.py
MaxFrames == 3        \* frames read in one run
MaxFaces == 4         \* faces the cascade reports in one frame
MaxNow == 2           \* ticks of the wall clock
TicksPerDay == 2      \* ticks of the wall clock in one calendar day

(***************************************************************************)
(* Text helpers.                                                           *)
(***************************************************************************)
Digits == {"0", "1", "2", "3", "4", "5", "6", "7", "8", "9"}

RECURSIVE LStrip(_)
LStrip(s) == IF s # <<>> /\ Head(s) = " " THEN LStrip(Tail(s)) ELSE s

RECURSIVE RStrip(_)
RStrip(s) ==
    IF s # <<>> /\ s[Len(s)] = " " THEN RStrip(SubSeq(s, 1, Len(s) - 1)) ELSE s

\* str.strip()
Strip(s) == RStrip(LStrip(s))

LowerChar(c) ==
    CASE c = "E" -> "e"
      [] c = "P" -> "p"
      [] c = "D" -> "d"
      [] OTHER -> c

\* str.lower()
Lower(s) == [i \in 1..Len(s) |-> LowerChar(s[i])]

\* str.isdigit(): non-empty and every character a digit
IsDigit(s) == s # <<>> /\ \A i \in 1..Len(s) : s[i] \in Digits

\* os.path.splitext(name)[1]: from the last dot on, unless only dots precede it
SplitExt(name) ==
    LET dots == {i \in 1..Len(name) : name[i] = "."}
        last == CHOOSE i \in dots : \A j \in dots : j <= i
    IN  IF dots = {} THEN <<>>
        ELSE IF \A j \in 1..(last - 1) : name[j] = "." THEN <<>>
        ELSE SubSeq(name, last, Len(name))

\* os.path.join(folder, filename).replace("\\", "/")
JoinPath(folder, filename) == folder \o <<"/">> \o filename

UPLOAD_FOLDER == <<"students">>
STUDENTS_DIR == <<"students">>
JpgExt == <<".", "j", "p", "g">>

(***************************************************************************)
(* Inputs.                                                                 *)
(***************************************************************************)
Ten(c) == [i \in 1..10 |-> c]

P1 == Ten("1")
P2 == Ten("2")
PhotoJpg == [present |-> TRUE, filename |-> <<"f">>]
PhotoP == [present |-> TRUE, filename |-> <<"f", ".", "P">>]
\* request.files.get("photo"): no part at all, or a part with an empty filename
NoFile == [present |-> FALSE, filename |-> <<>>]
NoFilename == [present |-> TRUE, filename |-> <<>>]

Form(r, n, d, s, e, ph, photo) ==
    [roll_no |-> r, name |-> n, department |-> d, section |-> s,
     email |-> e, phone |-> ph, photo |-> photo]

\* e-mail, phone and photo of the well-formed forms
Profiles ==
    {<<<<"e">>, P1, PhotoJpg>>, <<<<"E">>, P2, PhotoP>>,
     <<<<"f">>, P1, PhotoP>>, <<<<"f", " ">>, P2, PhotoJpg>>}

RollInputs == {<<"1">>, <<" ", "1">>, <<"0", "1">>, <<"a">>}

ValidForms ==
    {Form(r, <<"n">>, <<"d">>, <<"s">>, pr[1], pr[2], pr[3]) :
        r \in RollInputs, pr \in Profiles}

\* one defect each
InvalidForms ==
    {Form(<<" ">>, <<"n">>, <<"d">>, <<"s">>, <<"e">>, P1, PhotoJpg),
     Form(<<"1">>, <<>>, <<"d">>, <<"s">>, <<"e">>, P1, PhotoJpg),
     Form(<<"1">>, <<"n">>, <<" ">>, <<"s">>, <<"e">>, P1, PhotoJpg),
     Form(<<"1">>, <<"n">>, <<"d">>, <<>>, <<"e">>, P1, PhotoJpg),
     Form(<<"1">>, <<"n">>, <<"d">>, <<"s">>, <<" ">>, P1, PhotoJpg),
     Form(<<"1">>, <<"n">>, <<"d">>, <<"s">>, <<"e">>, <<>>, PhotoJpg),
     Form(<<"1">>, <<"n">>, <<"d">>, <<"s">>, <<"e">>, <<"1", "2">>, PhotoJpg),
     Form(<<"1">>, <<"n">>, <<"d">>, <<"s">>, <<"e">>,
          [i \in 1..10 |-> IF i = 10 THEN "a" ELSE "1"], PhotoJpg),
     Form(<<"1">>, <<"n">>, <<"d">>, <<"s">>, <<"e">>, P1, NoFile),
     Form(<<"1">>, <<"n">>, <<"d">>, <<"s">>, <<"e">>, P1, NoFilename)}

Forms == ValidForms \cup InvalidForms

\* the forms of the interleaved registrations
ConcForms ==
    {Form(<<"1">>, <<"n">>, <<"d">>, <<"s">>, <<"e">>, P1, PhotoJpg),
     Form(<<" ", "1">>, <<"n">>, <<"d">>, <<"s">>, <<"f">>, P2, PhotoP),
     Form(<<"a">>, <<"n">>, <<"d">>, <<"s">>, <<"f">>, P2, PhotoP)}

\* the forms used where the registrations only set the scene for one run of
\* main.py
SessionForms ==
    {Form(<<"0", "1">>, <<"n">>, <<"d">>, <<"s">>, <<"e">>, P1, PhotoJpg),
     Form(<<"a">>, <<"n">>, <<"d">>, <<"s">>, <<"f">>, P2, PhotoP)}

\* the forms used where main.py runs several times
ReportForms ==
    {Form(<<"1">>, <<"n">>, <<"d">>, <<"s">>, <<"e">>, P1, PhotoJpg),
     Form(<<"0", "1">>, <<"n">>, <<"d">>, <<"s">>, <<"f">>, P2, PhotoP)}

\* the forms used where the home page is asked for
HomeForms ==
    {Form(<<"1">>, <<"n">>, <<"d">>, <<"s">>, <<"e">>, P1, PhotoJpg),
     Form(<<"a">>, <<"n">>, <<"d">>, <<"s">>, <<"f">>, P2, PhotoP)}

\* a roll number that names a folder which does not exist
SlashForms ==
    {Form(<<"a", "/", "b">>, <<"n">>, <<"d">>, <<"s">>, <<"g">>, Ten("3"), PhotoJpg)}

\* the forms of the registrations whose requests are kept: rolls, e-mails
\* and phones that match one another in one field at a time, and one form
\* that matches nothing and has no photo
KeptForms ==
    {Form(<<"1">>, <<"n">>, <<"d">>, <<"s">>, <<"e">>, P1, PhotoJpg),
     Form(<<" ", "1">>, <<"n">>, <<"d">>, <<"s">>, <<"f">>, P2, PhotoP),
     Form(<<"a">>, <<"n">>, <<"d">>, <<"s">>, <<"E">>, Ten("3"), PhotoP),
     Form(<<"0", "1">>, <<"n">>, <<"d">>, <<"s">>, <<"g", " ">>, P1, PhotoJpg),
     Form(<<"b">>, <<"n">>, <<"d">>, <<"s">>, <<"h">>, Ten("4"), NoFile)}
        \cup InvalidForms \cup SlashForms

RegProcs == {"web1", "web2", "cli"}
WebProcs == {"web1", "web2"}
CliProcs == {"cli"}

NoRow ==
    [roll_no |-> <<>>, name |-> <<>>, department |-> <<>>, section |-> <<>>,
     image_path |-> <<>>, email |-> <<>>, phone |-> <<>>]

VARIABLES
    now,          \* wall clock, in ticks
    studentsCsv,  \* [exists, rows]: students.csv (header line + data rows)
    images,       \* paths of the files in the students/ folder
    classReport,  \* [exists, lines]: class_report.csv
    reg,          \* per registration process: position and local variables
    lastResp,     \* outcome of the latest registration request or run
    lastReq,      \* history: the request lastResp answers, where it is kept
    appendLog,    \* history: the appends to students.csv, in order
    sessPc,       \* main.py: position of the running session, or "idle"
    sess,         \* main.py: local variables of main()
    cameraOpen,   \* main.py: the capture device is held
    seen,         \* history: per student, what the heavy frames observed
    lastId,       \* history: the latest call of identify_student, where kept
    runs,         \* history: one record for each run of main.py
    dashResp,     \* dashboard_app.py: the latest response
    portal        \* teacher_portal.py: [pc, dialog] of run_main_class

regVars == <<studentsCsv, images, reg, lastResp, lastReq, appendLog>>

(***************************************************************************)
(* Registration: app.py and register_student.py.                           *)
(***************************************************************************)
\* ensure_students_csv(): create the file with its header when missing
ensure_students_csv(csv) ==
    IF csv.exists THEN csv ELSE [exists |-> TRUE, rows |-> <<>>]

\* the scan looking at the roll number only
check_existing_RollOnly(csv, roll_no, email, phone) ==
    IF csv.exists /\ \E i \in 1..Len(csv.rows) : Strip(csv.rows[i].roll_no) = roll_no
    THEN "roll" ELSE "none"

\* app.py check_existing: first row, in file order, that matches on roll
\* number, e-mail (case-insensitive) or phone, each test skipped for an
\* empty argument; the field of that row tested first wins
RowMatch(row, roll_no, email, phone) ==
    IF roll_no # <<>> /\ Strip(row.roll_no) = roll_no THEN "roll"
    ELSE IF email # <<>> /\ Lower(Strip(row.email)) # <<>>
            /\ Lower(Strip(row.email)) = Lower(email) THEN "email"
    ELSE IF phone # <<>> /\ Strip(row.phone) # <<>>
            /\ Strip(row.phone) = phone THEN "phone"
    ELSE "none"

check_existing(csv, roll_no, email, phone) ==
    IF ~csv.exists THEN "none"
    ELSE LET hits == {i \in 1..Len(csv.rows) :
                         RowMatch(csv.rows[i], roll_no, email, phone) # "none"}
             first == CHOOSE i \in hits : \A j \in hits : i <= j
         IN  IF hits = {} THEN "none"
             ELSE RowMatch(csv.rows[first], roll_no, email, phone)

\* the scan returning from inside the loop, after the first row
student_exists_roll_FirstRowOnly(csv, roll_no) ==
    /\ csv.exists
    /\ csv.rows # <<>>
    /\ Strip(csv.rows[1].roll_no) = roll_no

\* register_student.py student_exists_roll
student_exists_roll(csv, roll_no) ==
    /\ csv.exists
    /\ \E i \in 1..Len(csv.rows) : Strip(csv.rows[i].roll_no) = roll_no

Idle == [pc |-> "idle", row |-> NoRow, scanned |-> 0]

\* app.py register, GET: only ensure_students_csv and the form
WebGet(p) ==
    /\ p \in WebProcs
    /\ reg[p].pc = "idle"
    /\ studentsCsv' = ensure_students_csv(studentsCsv)
    /\ lastResp' = "form"
    /\ UNCHANGED <<images, reg, lastReq, appendLog>>

\* the fields of a request that the uniqueness checks look at, as the
\* handlers hold them (stripped)
NoReq == [path |-> "none", roll_no |-> <<>>, email |-> <<>>, phone |-> <<>>]

Request(path, f) ==
    [path |-> path, roll_no |-> Strip(f.roll_no), email |-> Strip(f.email),
     phone |-> Strip(f.phone)]

\* app.py register, POST of form f, lines 65-108: validation, uniqueness
\* scan, photo (the history lastReq is set by the caller)
WebPostCheckForm(p, f) ==
    /\ p \in WebProcs
    /\ reg[p].pc = "idle"
    /\ LET roll_no == Strip(f.roll_no)
            name == Strip(f.name)
            department == Strip(f.department)
            section == Strip(f.section)
            email == Strip(f.email)
            phone == Strip(f.phone)
            csv == ensure_students_csv(studentsCsv)
            field == check_existing(csv, roll_no, email, phone)
            ext == IF Lower(SplitExt(f.photo.filename)) # <<>>
                   THEN Lower(SplitExt(f.photo.filename)) ELSE JpgExt
            save_path == JoinPath(UPLOAD_FOLDER, roll_no \o ext)
            outcome ==
                IF roll_no = <<>> \/ name = <<>> \/ department = <<>> \/ section = <<>>
                THEN "error_required"
                ELSE IF email = <<>> THEN "error_email_required"
                ELSE IF phone = <<>> THEN "error_phone_required"
                ELSE IF ~IsDigit(phone) \/ Len(phone) # 10 THEN "error_phone_digits"
                ELSE IF field = "roll" THEN "error_roll_registered"
                ELSE IF field = "email" THEN "error_email_registered"
                ELSE IF field = "phone" THEN "error_phone_registered"
                ELSE IF ~f.photo.present \/ f.photo.filename = <<>> THEN "error_photo"
                ELSE "checked"
        IN  /\ studentsCsv' = csv
            /\ IF outcome = "checked"
               THEN /\ Len(csv.rows) < MaxStudents
                    /\ reg' = [reg EXCEPT ![p] =
                          [pc |-> "save",
                           row |-> [roll_no |-> roll_no, name |-> name,
                                    department |-> department, section |-> section,
                                    image_path |-> save_path, email |-> email,
                                    phone |-> phone],
                           scanned |-> Len(csv.rows)]]
                    /\ lastResp' = "pending"
               ELSE /\ reg' = reg
                    /\ lastResp' = outcome
    /\ UNCHANGED <<images, appendLog>>

\* app.py register, POST, of any of the forms
WebPostCheck(p, forms) ==
    \E f \in forms : WebPostCheckForm(p, f) /\ lastReq' = lastReq

\* the same, the request being kept
WebPostCheckKept(p, forms) ==
    \E f \in forms : WebPostCheckForm(p, f) /\ lastReq' = Request("web", f)

\* os.path.dirname: what precedes the last "/"
RECURSIVE Dirname(_)
Dirname(path) ==
    IF path = <<>> THEN <<>>
    ELSE IF path[Len(path)] = "/" THEN SubSeq(path, 1, Len(path) - 1)
    ELSE Dirname(SubSeq(path, 1, Len(path) - 1))

\* a file can be created where its folder exists; the only folder the
\* programs make is students/ (app.py line 17, ensure_students_dir)
CanWrite(path) == Dirname(path) = STUDENTS_DIR

\* app.py register, line 114: file.save(save_path) writes the file, or raises
\* and the request ends with a server error
WebPostSave(p) ==
    /\ p \in WebProcs
    /\ reg[p].pc = "save"
    /\ IF CanWrite(reg[p].row.image_path)
       THEN /\ images' = images \cup {reg[p].row.image_path}
            /\ reg' = [reg EXCEPT ![p].pc = "append"]
            /\ lastResp' = lastResp
       ELSE /\ images' = images
            /\ reg' = [reg EXCEPT ![p] = Idle]
            /\ lastResp' = "error_500"
    /\ UNCHANGED <<studentsCsv, lastReq, appendLog>>

\* a plausible repair that the code does not have: the append looks for the
\* roll number again and writes nothing when it is there
AppendRow_Recheck(csv, row) ==
    IF \E i \in 1..Len(csv.rows) : csv.rows[i].roll_no = row.roll_no
    THEN csv
    ELSE [exists |-> TRUE, rows |-> Append(csv.rows, row)]

\* open(STUDENTS_CSV, "a") ... writer.writerow(...): one row at the end
AppendRow(csv, row) == [exists |-> TRUE, rows |-> Append(csv.rows, row)]

\* history record of the append of process p: the row, what its scan had
\* seen, where the file stood, and whether the row went in
Logged(p, before, after) ==
    [roll_no |-> reg[p].row.roll_no, image_path |-> reg[p].row.image_path, scanned |-> reg[p].scanned,
     at |-> Len(before.rows), ok |-> after.rows = Append(before.rows, reg[p].row)]

\* app.py register, lines 119-132: append the row, flash success
WebPostAppend(p) ==
    /\ p \in WebProcs
    /\ reg[p].pc = "append"
    /\ studentsCsv' = AppendRow(studentsCsv, reg[p].row)
    /\ reg' = [reg EXCEPT ![p] = Idle]
    /\ lastResp' = "success"
    /\ appendLog' = Append(appendLog, Logged(p, studentsCsv, studentsCsv'))
    /\ UNCHANGED <<images, lastReq>>

\* register_student.py main, lines 51-83, with the inputs f: validation,
\* roll scan, camera (the history lastReq is set by the caller)
CliStartForm(p, f, cameraOk) ==
    /\ p \in CliProcs
    /\ reg[p].pc = "idle"
    /\ LET roll_no == Strip(f.roll_no)
            name == Strip(f.name)
            department == Strip(f.department)
            section == Strip(f.section)
            email == Strip(f.email)
            phone == Strip(f.phone)
            csv == ensure_students_csv(studentsCsv)
            img_path == JoinPath(STUDENTS_DIR, roll_no \o JpgExt)
            outcome ==
                IF roll_no = <<>> \/ name = <<>> \/ department = <<>> \/ section = <<>>
                THEN "error_required"
                ELSE IF email = <<>> THEN "error_email_required"
                ELSE IF ~IsDigit(phone) \/ Len(phone) # 10 THEN "error_phone_digits"
                ELSE IF student_exists_roll(csv, roll_no) THEN "error_roll_registered"
                ELSE IF ~cameraOk THEN "error_camera"
                ELSE "checked"
        IN  /\ studentsCsv' = csv
            /\ IF outcome = "checked"
               THEN /\ Len(csv.rows) < MaxStudents
                    /\ reg' = [reg EXCEPT ![p] =
                          [pc |-> "capture",
                           row |-> [roll_no |-> roll_no, name |-> name,
                                    department |-> department, section |-> section,
                                    image_path |-> img_path, email |-> email,
                                    phone |-> phone],
                           scanned |-> Len(csv.rows)]]
                    /\ lastResp' = "pending"
               ELSE /\ reg' = reg
                    /\ lastResp' = outcome
    /\ UNCHANGED <<images, appendLog>>

\* register_student.py main, lines 51-83, with any of the forms as inputs
CliStart(p, forms) ==
    \E f \in forms, cameraOk \in BOOLEAN :
        CliStartForm(p, f, cameraOk) /\ lastReq' = lastReq

\* the same, the request being kept
CliStartKept(p, forms) ==
    \E f \in forms, cameraOk \in BOOLEAN :
        CliStartForm(p, f, cameraOk) /\ lastReq' = Request("cli", f)

\* cv2.imwrite(path, frame): the file is written and True returned, or
\* nothing is written and False returned; it does not raise for a folder
\* that is missing
imwrite(imgs, path) == IF CanWrite(path) THEN imgs \cup {path} ELSE imgs

\* register_student.py main, lines 88-110 and 128-130: the capture loop ends
\* with SPACE (cv2.imwrite called, its result not looked at), with 'q' or
\* with a failed read
CliCapture(p) ==
    /\ p \in CliProcs
    /\ reg[p].pc = "capture"
    /\ \E key \in {"space", "q", "readfail"} :
        IF key = "space"
        THEN /\ images' = imwrite(images, reg[p].row.image_path)
             /\ reg' = [reg EXCEPT ![p].pc = "append"]
             /\ lastResp' = lastResp
        ELSE /\ images' = images
             /\ reg' = [reg EXCEPT ![p] = Idle]
             /\ lastResp' = "cancelled"
    /\ UNCHANGED <<studentsCsv, lastReq, appendLog>>

\* register_student.py main, lines 113-126: append the row
CliAppend(p) ==
    /\ p \in CliProcs
    /\ reg[p].pc = "append"
    /\ studentsCsv' = AppendRow(studentsCsv, reg[p].row)
    /\ reg' = [reg EXCEPT ![p] = Idle]
    /\ lastResp' = "success"
    /\ appendLog' = Append(appendLog, Logged(p, studentsCsv, studentsCsv'))
    /\ UNCHANGED <<images, lastReq>>

\* one step of registration process p
RegStep(p, forms) ==
    \/ WebGet(p)
    \/ WebPostCheck(p, forms)
    \/ WebPostSave(p)
    \/ WebPostAppend(p)
    \/ CliStart(p, forms)
    \/ CliCapture(p)
    \/ CliAppend(p)

\* one step of registration process p, the requests being kept
RegStepKept(p, forms) ==
    \/ WebGet(p)
    \/ WebPostCheckKept(p, forms)
    \/ WebPostSave(p)
    \/ WebPostAppend(p)
    \/ CliStartKept(p, forms)
    \/ CliCapture(p)
    \/ CliAppend(p)

\* one step of a web POST of process p
WebPostStep(p, forms) ==
    \/ WebPostCheck(p, forms)
    \/ WebPostSave(p)
    \/ WebPostAppend(p)

\* no other registration is between its scan and its append
Alone(p) == \A q \in RegProcs \ {p} : reg[q].pc = "idle"

sessVars == <<sessPc, sess, cameraOpen, seen, lastId, runs>>

(***************************************************************************)
(* The class session: main.py.                                             *)
(***************************************************************************)
FACE_MATCH_THRESHOLD == 60      \* 0.6, distances in hundredths
PROCESS_EVERY_N_FRAMES == 3
FRAME_TARGET_WIDTH == 640

StudentColumns ==
    {"roll_no", "name", "department", "section", "image_path", "email", "phone"}

ReportColumns ==
    <<"Roll No", "Name", "Department", "Section", "Session Date", "Session Time",
      "Status", "% Time Present (approx)", "% Time Attentive", "Dominant Emotion">>

Max(a, b) == IF a >= b THEN a ELSE b
Abs(a) == IF a >= 0 THEN a ELSE -a
EmptyFcn == [k \in {} |-> 0]

\* str(int(s)): the decimal digits without leading zeros
RECURSIVE IntStr(_)
IntStr(s) == IF Len(s) > 1 /\ Head(s) = "0" THEN IntStr(Tail(s)) ELSE s

\* pd.read_csv gives a column the integer type when every cell of it is an
\* integer literal (a column without cells stays of object type)
ColIsInt(rows, col) == rows # <<>> /\ \A i \in 1..Len(rows) : IsDigit(rows[i][col])

\* one cell after pd.read_csv and .astype(str).str.strip()
CleanCell(rows, i, col) ==
    Strip(IF ColIsInt(rows, col) THEN IntStr(rows[i][col]) ELSE rows[i][col])

\* main.py load_students, for a file that exists (its header is the one
\* ensure_students_csv wrote, so the required columns are there)
load_students(csv) ==
    [i \in 1..Len(csv.rows) |->
        [col \in StudentColumns |-> CleanCell(csv.rows, i, col)]]

NewInfo(row) ==
    [name |-> row.name, department |-> row.department, section |-> row.section,
     email |-> row.email, phone |-> row.phone, present |-> FALSE,
     frames_present |-> 0, frames_attentive |-> 0, dominant_emotions |-> <<>>]

\* the dict after the rows from i on: a repeated key keeps its place and
\* takes the later row's values
RECURSIVE init_attendance_from(_, _, _)
init_attendance_from(df, i, att) ==
    IF i > Len(df) THEN att
    ELSE LET r == df[i].roll_no
         IN  init_attendance_from(df, i + 1,
                [keys |-> IF r \in DOMAIN att.info THEN att.keys
                          ELSE Append(att.keys, r),
                 info |-> [k \in DOMAIN att.info \cup {r} |->
                              IF k = r THEN NewInfo(df[i]) ELSE att.info[k]]])

\* main.py init_attendance_dict: keys in insertion order, and the entries
init_attendance_dict(df) ==
    init_attendance_from(df, 1, [keys |-> <<>>, info |-> EmptyFcn])

NoBest == [found |-> FALSE, roll_no |-> <<>>, distance |-> 0]

\* the loop of identify_student from row i on; verify[i] is what
\* DeepFace.verify does for row i: raises, answers without a distance, or
\* answers with a distance
RECURSIVE identify_from(_, _, _, _, _)
identify_from(df, imgs, verify, i, best) ==
    IF i > Len(df) THEN best
    ELSE IF df[i].image_path \notin imgs
    THEN identify_from(df, imgs, verify, i + 1, best)
    ELSE IF verify[i].kind # "distance"
    THEN identify_from(df, imgs, verify, i + 1, best)
    ELSE IF ~best.found \/ verify[i].distance < best.distance
    THEN identify_from(df, imgs, verify, i + 1,
            [found |-> TRUE, roll_no |-> df[i].roll_no,
             distance |-> verify[i].distance])
    ELSE identify_from(df, imgs, verify, i + 1, best)

\* the threshold taken as inclusive
identify_student_Inclusive(df, imgs, verify) ==
    LET best == identify_from(df, imgs, verify, 1, NoBest)
    IN  IF best.found /\ best.distance <= FACE_MATCH_THRESHOLD
        THEN [found |-> TRUE, roll_no |-> best.roll_no]
        ELSE [found |-> FALSE, roll_no |-> <<>>]

\* main.py identify_student: the roll number, or None (found = FALSE)
identify_student(df, imgs, verify) ==
    LET best == identify_from(df, imgs, verify, 1, NoBest)
    IN  IF best.found /\ best.distance < FACE_MATCH_THRESHOLD
        THEN [found |-> TRUE, roll_no |-> best.roll_no]
        ELSE [found |-> FALSE, roll_no |-> <<>>]

\* main.py estimate_attention_status; abs(d) < width * 0.25 is 4 * abs(d) < width
estimate_attention_status(x, y, w, h, frame_width, frame_height) ==
    LET frame_center_x == frame_width \div 2
        frame_center_y == frame_height \div 2
        face_center_x == x + (w \div 2)
        face_center_y == y + (h \div 2)
    IN  IF /\ 4 * Abs(face_center_x - frame_center_x) < frame_width
           /\ 4 * Abs(face_center_y - frame_center_y) < frame_height
        THEN "Attentive" ELSE "Not attentive"

\* round(n / d * 100.0, 2), in hundredths of a percent, halves to even
Pct(n, d) ==
    LET x == n * 10000
        q == x \div d
        r == x % d
    IN  IF 2 * r > d \/ (2 * r = d /\ q % 2 = 1) THEN q + 1 ELSE q

Count(list, e) == Cardinality({i \in 1..Len(list) : list[i] = e})

\* the keys of Counter(list): the labels in order of first occurrence
RECURSIVE CounterKeys(_, _, _)
CounterKeys(list, i, keys) ==
    IF i > Len(list) THEN keys
    ELSE CounterKeys(list, i + 1,
            IF \E j \in 1..Len(keys) : keys[j] = list[i] THEN keys
            ELSE Append(keys, list[i]))

\* max(items, key = count): the first key with the greatest count
RECURSIVE MaxItem(_, _, _, _)
MaxItem(list, keys, i, best) ==
    IF i > Len(keys) THEN best
    ELSE MaxItem(list, keys, i + 1,
            IF Count(list, keys[i]) > Count(list, best) THEN keys[i] ELSE best)

\* the last label recorded
most_common_Last(list) == list[Len(list)]

\* Counter(list).most_common(1)[0][0], list not empty
most_common(list) ==
    LET keys == CounterKeys(list, 1, <<>>)
    IN  MaxItem(list, keys, 2, keys[1])

\* one row of compute_session_report
ReportRow(roll_no, info, total_frames, session_date, session_time) ==
    LET absent == info.frames_present = 0
    IN  [kind |-> "row",
         roll_no |-> roll_no, name |-> info.name,
         department |-> info.department, section |-> info.section,
         session_date |-> session_date, session_time |-> session_time,
         status |-> IF absent THEN "Absent" ELSE "Present",
         present_pct |-> IF absent THEN 0
                         ELSE Pct(info.frames_present, Max(total_frames, 1)),
         attention_pct |-> IF absent THEN 0
                           ELSE Pct(info.frames_attentive, info.frames_present),
         emotion |-> IF absent THEN "N/A"
                     ELSE IF info.dominant_emotions # <<>>
                     THEN most_common(info.dominant_emotions)
                     ELSE "unknown"]

\* the report of the students seen only
compute_session_report_PresentOnly(attendance, total_frames, session_date, session_time) ==
    SelectSeq([i \in 1..Len(attendance.keys) |->
                  ReportRow(attendance.keys[i], attendance.info[attendance.keys[i]],
                            total_frames, session_date, session_time)],
              LAMBDA row : row.status = "Present")

\* main.py compute_session_report: the rows, in the order of the dict
compute_session_report(attendance, total_frames, session_date, session_time) ==
    [i \in 1..Len(attendance.keys) |->
        ReportRow(attendance.keys[i], attendance.info[attendance.keys[i]],
                  total_frames, session_date, session_time)]

\* the header line DataFrame.to_csv writes: the columns of the frame, and a
\* frame built from an empty list of rows has no columns
HeaderLine(report_df) ==
    [kind |-> "header", columns |-> IF report_df = <<>> THEN <<>> ELSE ReportColumns]

\* main.py lines 386-393: append without header when the file exists, else
\* create it with the header line
to_csv(file, report_df) ==
    IF file.exists
    THEN [exists |-> TRUE, lines |-> file.lines \o report_df]
    ELSE [exists |-> TRUE, lines |-> <<HeaderLine(report_df)>> \o report_df]

\* main.py open_camera: the first of the indexes 0, 1, 2 that opens
open_camera(available) ==
    IF available = {} THEN [opened |-> FALSE, index |-> 0]
    ELSE [opened |-> TRUE,
          index |-> CHOOSE i \in available : \A j \in available : i <= j]

\* datetime.now(): the date and the time of day of the wall clock
DateOf(t) == t \div TicksPerDay
TimeOf(t) == t % TicksPerDay

NoSession ==
    [session_date |-> 0, session_time |-> 0, students_df |-> <<>>,
     attendance |-> [keys |-> <<>>, info |-> EmptyFcn], total_frames |-> 0,
     faces_left |-> 0, frame_w |-> 0, frame_h |-> 0]

\* inputs of a frame
FrameSizes == {<<1280, 720>>}
FaceBoxes == {<<270, 190, 100, 100>>, <<0, 0, 100, 100>>}
OneFaceBox == {<<270, 190, 100, 100>>}
Emotions == {"unknown", "happy", "sad"}
OneEmotion == {"happy"}
VerifyOutcomes ==
    {[kind |-> "error", distance |-> 0], [kind |-> "nodist", distance |-> 0]}
        \cup {[kind |-> "distance", distance |-> d] : d \in {30, 50, 60}}

\* main.py main, lines 237-268: the clock, the students, the cascade, the
\* camera (whoever started the process)
StartMain(maxRuns) ==
    /\ sessPc = "idle"
    /\ Len(runs) < maxRuns
    /\ \E cascadeOk \in BOOLEAN, available \in SUBSET (0..2) :
        LET df == load_students(studentsCsv)
            att == init_attendance_dict(df)
            exit == IF ~studentsCsv.exists THEN "no_students"
                    ELSE IF ~cascadeOk THEN "no_cascade"
                    ELSE IF ~open_camera(available).opened THEN "no_camera"
                    ELSE "running"
        IN  /\ runs' = Append(runs, [start |-> now, csv |-> studentsCsv.rows,
                                     exit |-> exit, writes |-> 0,
                                     from |-> 0, to |-> 0])
            /\ IF exit = "running"
               THEN /\ sessPc' = "loop"
                    /\ sess' = [NoSession EXCEPT
                                   !.session_date = DateOf(now),
                                   !.session_time = TimeOf(now),
                                   !.students_df = df,
                                   !.attendance = att]
                    /\ cameraOpen' = TRUE
                    /\ seen' = [r \in DOMAIN att.info |-> [matches |-> 0, labels |-> <<>>]]
               ELSE /\ sessPc' = "idle"
                    /\ sess' = NoSession
                    /\ cameraOpen' = FALSE
                    /\ seen' = EmptyFcn
    /\ UNCHANGED <<now, classReport, regVars, lastId, dashResp>>

\* main.py started from the command line
StartSession(maxRuns) == StartMain(maxRuns) /\ UNCHANGED portal

\* main.py main, lines 271-300: read a frame, count it, resize it, detect
ReadFrame(frameSizes, maxFaces) ==
    /\ sessPc = "loop"
    /\ \E ret \in BOOLEAN :
        IF ~ret
        THEN /\ sessPc' = "ended"
             /\ sess' = sess
        ELSE /\ sess.total_frames < MaxFrames
             /\ \E size \in frameSizes, n \in 0..maxFaces :
                 LET w0 == size[1]
                     h0 == size[2]
                     w == IF w0 > FRAME_TARGET_WIDTH THEN FRAME_TARGET_WIDTH ELSE w0
                     h == IF w0 > FRAME_TARGET_WIDTH
                          THEN (h0 * FRAME_TARGET_WIDTH) \div w0 ELSE h0
                 IN  sess' = [sess EXCEPT !.total_frames = @ + 1,
                                          !.faces_left = n,
                                          !.frame_w = w, !.frame_h = h]
             /\ sessPc' = "faces"
    /\ UNCHANGED <<now, classReport, regVars, cameraOpen, seen, lastId, runs, dashResp, portal>>

\* the frames counted from 0
do_heavy_ZeroBased(total_frames) == (total_frames - 1) % PROCESS_EVERY_N_FRAMES = 0

\* main.py line 292
do_heavy(total_frames) == total_frames % PROCESS_EVERY_N_FRAMES = 0

\* the entry without the present flag being raised
Matched_NoFlag(info, attention_status, dominant_emotion) ==
    [info EXCEPT
        !.frames_present = @ + 1,
        !.frames_attentive = IF attention_status = "Attentive" THEN @ + 1 ELSE @,
        !.dominant_emotions = IF dominant_emotion # "unknown"
                              THEN Append(@, dominant_emotion) ELSE @]

\* the face counted as present only when it is not attentive
Matched_AttentiveUncounted(info, attention_status, dominant_emotion) ==
    [info EXCEPT
        !.present = TRUE,
        !.frames_present = IF attention_status = "Attentive" THEN @ ELSE @ + 1,
        !.frames_attentive = IF attention_status = "Attentive" THEN @ + 1 ELSE @,
        !.dominant_emotions = IF dominant_emotion # "unknown"
                              THEN Append(@, dominant_emotion) ELSE @]

\* the entry of a matched student after one face (main.py lines 325-333)
Matched(info, attention_status, dominant_emotion) ==
    [info EXCEPT
        !.present = TRUE,
        !.frames_present = @ + 1,
        !.frames_attentive = IF attention_status = "Attentive" THEN @ + 1 ELSE @,
        !.dominant_emotions = IF dominant_emotion # "unknown"
                              THEN Append(@, dominant_emotion) ELSE @]

\* main.py main, lines 315-333: the heavy work on one face, DeepFace
\* answering dominant_emotion to analyze and verify[i] to the verification
\* against row i
AnalyseFace(box, dominant_emotion, verify) ==
    LET attention_status ==
            estimate_attention_status(box[1], box[2], box[3], box[4],
                                      sess.frame_w, sess.frame_h)
        id == identify_student(sess.students_df, images, verify)
        hit == id.found /\ id.roll_no \in DOMAIN sess.attendance.info
    IN  IF hit
        THEN /\ sess' = [sess EXCEPT
                    !.faces_left = @ - 1,
                    !.attendance.info[id.roll_no] =
                        Matched(@, attention_status, dominant_emotion)]
             /\ seen' = [seen EXCEPT
                    ![id.roll_no].matches = @ + 1,
                    ![id.roll_no].labels =
                        IF dominant_emotion # "unknown"
                        THEN Append(@, dominant_emotion) ELSE @]
        ELSE /\ sess' = [sess EXCEPT !.faces_left = @ - 1]
             /\ seen' = seen

\* main.py main, lines 367-371: a face of a frame without heavy work is only
\* drawn
DrawFace ==
    /\ sess' = [sess EXCEPT !.faces_left = @ - 1]
    /\ seen' = seen

\* the history record of a call of identify_student
NoId == [frame |-> 0, face |-> 0, verify |-> <<>>,
         returned |-> [found |-> FALSE, roll_no |-> <<>>]]

Identified(verify) ==
    [frame |-> sess.total_frames, face |-> sess.faces_left, verify |-> verify,
     returned |-> identify_student(sess.students_df, images, verify)]

\* main.py main, lines 313-371: one face of the frame
ProcessFace(boxes, emotions) ==
    /\ sessPc = "faces"
    /\ sess.faces_left > 0
    /\ IF do_heavy(sess.total_frames)
       THEN \E box \in boxes, dominant_emotion \in emotions,
               verify \in [1..Len(sess.students_df) -> VerifyOutcomes] :
              AnalyseFace(box, dominant_emotion, verify)
       ELSE DrawFace
    /\ UNCHANGED <<now, classReport, regVars, sessPc, cameraOpen, lastId, runs, dashResp, portal>>

\* the same, the calls of identify_student being kept
ProcessFaceKept(boxes, emotions) ==
    /\ sessPc = "faces"
    /\ sess.faces_left > 0
    /\ IF do_heavy(sess.total_frames)
       THEN \E box \in boxes, dominant_emotion \in emotions,
               verify \in [1..Len(sess.students_df) -> VerifyOutcomes] :
              /\ AnalyseFace(box, dominant_emotion, verify)
              /\ lastId' = Identified(verify)
       ELSE DrawFace /\ lastId' = lastId
    /\ UNCHANGED <<now, classReport, regVars, sessPc, cameraOpen, runs, dashResp, portal>>

\* main.py main, lines 373-378: show the frame, poll the keyboard
WaitKey ==
    /\ sessPc = "faces"
    /\ sess.faces_left = 0
    /\ \E key \in {"q", "none"} :
        sessPc' = IF key = "q" THEN "ended" ELSE "loop"
    /\ UNCHANGED <<now, classReport, regVars, sess, cameraOpen, seen, lastId, runs, dashResp, portal>>

\* the device still held when the report is written
ReleaseCamera_Held ==
    /\ sessPc = "ended"
    /\ cameraOpen' = cameraOpen
    /\ sessPc' = "report"
    /\ UNCHANGED <<now, classReport, regVars, sess, seen, lastId, runs, dashResp, portal>>

\* main.py main, lines 380-381: cap.release()
ReleaseCamera ==
    /\ sessPc = "ended"
    /\ cameraOpen' = FALSE
    /\ sessPc' = "report"
    /\ UNCHANGED <<now, classReport, regVars, sess, seen, lastId, runs, dashResp, portal>>

\* main.py main, lines 383-396: compute the report and write it
WriteReport ==
    /\ sessPc = "report"
    /\ LET report_df == compute_session_report(sess.attendance, sess.total_frames,
                                               sess.session_date, sess.session_time)
           file == to_csv(classReport, report_df)
       IN  /\ classReport' = file
           /\ runs' = [runs EXCEPT ![Len(runs)] =
                          [@ EXCEPT !.exit = "report", !.writes = @ + 1,
                                    !.from = Len(file.lines) - Len(report_df) + 1,
                                    !.to = Len(file.lines)]]
    /\ sessPc' = "idle"
    /\ UNCHANGED <<now, regVars, sess, cameraOpen, seen, lastId, dashResp, portal>>

(***************************************************************************)
(* The teacher portal: teacher_portal.py.                                  *)
(***************************************************************************)
\* the exit code of the process of main.py: main() ends by return on its
\* three early exits and after the report alike, and the script by falling
\* off its end
returncode(run) ==
    CASE run.exit = "no_students" -> 0
      [] run.exit = "no_cascade" -> 0
      [] run.exit = "no_camera" -> 0
      [] run.exit = "report" -> 0

\* teacher_portal.py run_main_class, line 28: subprocess.run starts main.py;
\* when the interpreter of PYTHON_EXE cannot be started it raises at once,
\* and the except branch shows the error dialog
PortalStartClass(maxRuns) ==
    /\ portal.pc = "idle"
    /\ \E launched \in BOOLEAN :
        IF launched
        THEN /\ StartMain(maxRuns)
             /\ portal' = [pc |-> "waiting", dialog |-> "none"]
        ELSE /\ portal' = [pc |-> "idle", dialog |-> "error"]
             /\ UNCHANGED <<now, classReport, regVars, sessVars, dashResp>>

\* teacher_portal.py run_main_class, lines 28-31: the process has ended;
\* check=True raises CalledProcessError for an exit code other than 0, and
\* the info dialog is shown otherwise
PortalClassEnded ==
    /\ portal.pc = "waiting"
    /\ sessPc = "idle"
    /\ portal' = [pc |-> "idle",
                  dialog |-> IF returncode(runs[Len(runs)]) = 0
                             THEN "info" ELSE "error"]
    /\ UNCHANGED <<now, classReport, regVars, sessVars, dashResp>>

\* the wall clock advances
Tick ==
    /\ now < MaxNow
    /\ now' = now + 1
    /\ UNCHANGED <<classReport, regVars, sessVars, dashResp, portal>>

(***************************************************************************)
(* The dashboard: dashboard_app.py.  A response is the HTTP status and the  *)
(* values handed to the template.                                          *)
(***************************************************************************)
\* os.path.basename: what follows the last "/"
RECURSIVE Basename(_)
Basename(path) ==
    IF \E i \in 1..Len(path) : path[i] = "/" THEN Basename(Tail(path)) ELSE path

\* dashboard_app.py load_students: no row when the file is missing; else the
\* cells cleaned as by pandas, and image_file added
dash_load_students(csv) ==
    IF ~csv.exists THEN <<>>
    ELSE [i \in 1..Len(csv.rows) |->
            [col \in StudentColumns \cup {"image_file"} |->
                IF col = "image_file"
                THEN Basename(CleanCell(csv.rows, i, "image_path"))
                ELSE CleanCell(csv.rows, i, col)]]

\* a line with nothing on it: pd.read_csv skips it
BlankLine(line) == line.kind = "header" /\ line.columns = <<>>

\* dashboard_app.py load_reports: no row when the file is missing; else
\* pd.read_csv takes the first line that is not blank as the header, whatever
\* it holds, and raises EmptyDataError when there is none.  The cells are
\* kept as written (their pandas types are not modelled).
dash_load_reports(file) ==
    IF ~file.exists THEN [raised |-> FALSE, columns_ok |-> TRUE, rows |-> <<>>]
    ELSE LET ls == SelectSeq(file.lines, LAMBDA l : ~BlankLine(l))
         IN  IF ls = <<>> THEN [raised |-> TRUE, columns_ok |-> FALSE, rows |-> <<>>]
             ELSE [raised |-> FALSE, columns_ok |-> ls[1].kind = "header",
                   rows |-> Tail(ls)]

\* the (date, time) pairs of the rows, latest first
Later(a, b) == a[1] > b[1] \/ (a[1] = b[1] /\ a[2] >= b[2])

RECURSIVE SortDesc(_)
SortDesc(S) ==
    IF S = {} THEN <<>>
    ELSE LET top == CHOOSE a \in S : \A b \in S : Later(a, b)
         IN  <<top>> \o SortDesc(S \ {top})

SessionsList(rows) ==
    SortDesc({<<rows[i].session_date, rows[i].session_time>> : i \in 1..Len(rows)})

Head10(s) == SubSeq(s, 1, IF Len(s) < 10 THEN Len(s) ELSE 10)

ServerError(route) == [route |-> route, status |-> 500, body |-> <<>>]

\* dashboard_app.py home
DashHome ==
    /\ LET students_df == dash_load_students(studentsCsv)
           reports == dash_load_reports(classReport)
           today == DateOf(now)
           today_reports ==
               SelectSeq(reports.rows, LAMBDA r : r.session_date = today)
           counted(status) ==
               Cardinality({i \in 1..Len(today_reports) : today_reports[i].status = status})
       IN  dashResp' =
             IF reports.raised \/ (reports.rows # <<>> /\ ~reports.columns_ok)
             THEN ServerError("home")
             ELSE [route |-> "home", status |-> 200,
                   body |-> [total_students |-> Len(students_df),
                             present_count |-> IF today_reports # <<>>
                                               THEN counted("Present") ELSE 0,
                             absent_count |-> IF today_reports # <<>>
                                              THEN counted("Absent")
                                              ELSE Len(students_df),
                             today |-> today,
                             recent_sessions |-> Head10(SessionsList(reports.rows))]]
    /\ UNCHANGED <<now, classReport, regVars, sessVars, portal>>

\* dashboard_app.py students
DashStudents ==
    /\ \E dep \in {<<>>, <<" ", "D">>, <<"x">>}, sec \in {<<>>, <<"s">>} :
        LET students_df == dash_load_students(studentsCsv)
            department == Strip(dep)
            section == Strip(sec)
            keep(row) ==
                /\ department # <<>> => Lower(row.department) = Lower(department)
                /\ section # <<>> => Lower(row.section) = Lower(section)
        IN  dashResp' =
              [route |-> "students", status |-> 200,
               body |-> [students |-> SelectSeq(students_df, keep),
                         departments |-> {students_df[i].department : i \in 1..Len(students_df)},
                         sections |-> {students_df[i].section : i \in 1..Len(students_df)},
                         selected_department |-> department,
                         selected_section |-> section]]
    /\ UNCHANGED <<now, classReport, regVars, sessVars, portal>>

\* dashboard_app.py sessions
DashSessions ==
    /\ LET reports == dash_load_reports(classReport)
       IN  dashResp' =
             IF reports.raised \/ (reports.rows # <<>> /\ ~reports.columns_ok)
             THEN ServerError("sessions")
             ELSE [route |-> "sessions", status |-> 200,
                   body |-> SessionsList(reports.rows)]
    /\ UNCHANGED <<now, classReport, regVars, sessVars, portal>>

\* a query parameter that is missing (None)
NoParam == -1

\* dashboard_app.py view_session
DashViewSession ==
    /\ \E date \in {NoParam} \cup 0..1, time_ \in {NoParam} \cup 0..1 :
        LET reports == dash_load_reports(classReport)
            none == reports.rows = <<>> \/ date = NoParam \/ time_ = NoParam
        IN  dashResp' =
              IF reports.raised \/ (~none /\ ~reports.columns_ok)
              THEN ServerError("view_session")
              ELSE [route |-> "view_session", status |-> 200,
                    body |-> IF none THEN <<>>
                             ELSE SelectSeq(reports.rows,
                                      LAMBDA r : r.session_date = date
                                                 /\ r.session_time = time_)]
    /\ UNCHANGED <<now, classReport, regVars, sessVars, portal>>

\* a download that opens the file for appending, creating it when missing
DashDownload_Create ==
    /\ dashResp' = [route |-> "download_reports", status |-> 200,
                    body |-> classReport.lines]
    /\ classReport' = [classReport EXCEPT !.exists = TRUE]
    /\ UNCHANGED <<now, regVars, sessVars, portal>>

\* dashboard_app.py download_reports
DashDownload ==
    /\ dashResp' =
         IF ~classReport.exists
         THEN [route |-> "download_reports", status |-> 404, body |-> <<>>]
         ELSE [route |-> "download_reports", status |-> 200,
               body |-> classReport.lines]
    /\ UNCHANGED <<now, classReport, regVars, sessVars, portal>>

\* dashboard_app.py student_image: send_from_directory("students", filename)
DashStudentImage ==
    /\ \E filename \in {<<"1">> \o JpgExt, <<"z">>} :
        dashResp' =
          IF JoinPath(STUDENTS_DIR, filename) \in images
          THEN [route |-> "student_image", status |-> 200, body |-> filename]
          ELSE [route |-> "student_image", status |-> 404, body |-> <<>>]
    /\ UNCHANGED <<now, classReport, regVars, sessVars, portal>>

\* one request to the dashboard
Dashboard ==
    \/ DashHome
    \/ DashStudents
    \/ DashSessions
    \/ DashViewSession
    \/ DashDownload
    \/ DashStudentImage

vars ==
    <<now, studentsCsv, images, classReport, reg, lastResp, lastReq, appendLog,
      sessPc, sess, cameraOpen, seen, lastId, runs, dashResp, portal>>

Init ==
    /\ now = 0
    /\ studentsCsv = [exists |-> FALSE, rows |-> <<>>]
    /\ images = {}
    /\ classReport = [exists |-> FALSE, lines |-> <<>>]
    /\ reg = [p \in RegProcs |-> Idle]
    /\ lastResp = "none"
    /\ lastReq = NoReq
    /\ appendLog = <<>>
    /\ sessPc = "idle"
    /\ sess = NoSession
    /\ cameraOpen = FALSE
    /\ seen = <<>>
    /\ lastId = NoId
    /\ runs = <<>>
    /\ dashResp = [route |-> "none", status |-> 0, body |-> <<>>]
    /\ portal = [pc |-> "idle", dialog |-> "none"]

\* registrations completed one after the other, web and CLI in any order
NextReg ==
    /\ \E p \in RegProcs : Alone(p) /\ RegStep(p, Forms)
    /\ UNCHANGED <<now, classReport, sessVars, dashResp, portal>>

SpecReg == Init /\ [][NextReg]_vars

\* registrations of the web form and of the command line one after the
\* other, with the request of every response kept, and with a roll number
\* that names a missing folder among the inputs
NextRegKept ==
    /\ \E p \in {"web1", "cli"} : Alone(p) /\ RegStepKept(p, KeptForms)
    /\ UNCHANGED <<now, classReport, sessVars, dashResp, portal>>

SpecRegKept == Init /\ [][NextRegKept]_vars

\* registrations of several processes interleaved at their file accesses
NextRegConc ==
    /\ \E p \in RegProcs : RegStep(p, ConcForms)
    /\ UNCHANGED <<now, classReport, sessVars, dashResp, portal>>

SpecRegConc == Init /\ [][NextRegConc]_vars

\* one run of main.py in detail, after the registrations; main.py reads the
\* wall clock once, at its start, and the clock is left out
NextSession ==
    \/ /\ sessPc = "idle" /\ runs = <<>>
       /\ WebPostStep("web1", SessionForms)
       /\ UNCHANGED <<now, classReport, sessVars, dashResp, portal>>
    \/ StartSession(1)
    \/ ReadFrame(FrameSizes, MaxFaces)
    \/ ProcessFace(FaceBoxes, Emotions)
    \/ WaitKey
    \/ ReleaseCamera
    \/ WriteReport

SpecSession == Init /\ [][NextSession]_vars

\* the forms of the students of the run whose identifications are kept
IdentifyForms ==
    {Form(<<"1">>, <<"n">>, <<"d">>, <<"s">>, <<"e">>, P1, PhotoJpg),
     Form(<<"a">>, <<"n">>, <<"d">>, <<"s">>, <<"f">>, P2, PhotoP)}
        \cup SlashForms

\* one run of main.py with every call of identify_student kept, after
\* registrations by the web form and by the command line
NextIdentify ==
    \/ /\ sessPc = "idle" /\ runs = <<>>
       /\ \E p \in {"web1", "cli"} : Alone(p) /\ RegStep(p, IdentifyForms)
       /\ UNCHANGED <<now, classReport, sessVars, dashResp, portal>>
    \/ StartSession(1)
    \/ ReadFrame(FrameSizes, 2)
    \/ ProcessFaceKept(OneFaceBox, OneEmotion)
    \/ WaitKey
    \/ ReleaseCamera
    \/ WriteReport

SpecIdentify == Init /\ [][NextIdentify]_vars

\* several runs of main.py, registrations going on at any time
NextReports ==
    \/ /\ WebPostStep("web1", ReportForms)
       /\ UNCHANGED <<now, classReport, sessVars, dashResp, portal>>
    \/ StartSession(MaxSessions)
    \/ ReadFrame(FrameSizes, 1)
    \/ ProcessFace(OneFaceBox, OneEmotion)
    \/ WaitKey
    \/ ReleaseCamera
    \/ WriteReport
    \/ Tick

SpecReports == Init /\ [][NextReports]_vars

\* main.py run from the teacher portal, registrations going on at any time
NextPortal ==
    \/ /\ WebPostStep("web1", ReportForms)
       /\ UNCHANGED <<now, classReport, sessVars, dashResp, portal>>
    \/ PortalStartClass(MaxSessions)
    \/ ReadFrame(FrameSizes, 1)
    \/ ProcessFace(OneFaceBox, OneEmotion)
    \/ WaitKey
    \/ ReleaseCamera
    \/ WriteReport
    \/ PortalClassEnded

SpecPortal == Init /\ [][NextPortal]_vars

\* the home page of the dashboard beside the runs of main.py, students
\* being registered between the runs
NextHome ==
    \/ /\ sessPc = "idle"
       /\ WebPostStep("web1", HomeForms)
       /\ UNCHANGED <<now, classReport, sessVars, dashResp, portal>>
    \/ StartSession(MaxSessions)
    \/ ReadFrame(FrameSizes, 1)
    \/ ProcessFace(OneFaceBox, OneEmotion)
    \/ WaitKey
    \/ ReleaseCamera
    \/ WriteReport
    \/ Tick
    \/ DashHome

SpecHome == Init /\ [][NextHome]_vars

\* the dashboard beside the registrations and one run of main.py
NextDash ==
    \/ /\ WebPostStep("web1", ReportForms)
       /\ UNCHANGED <<now, classReport, sessVars, dashResp, portal>>
    \/ StartSession(1)
    \/ ReadFrame(FrameSizes, 1)
    \/ ProcessFace(OneFaceBox, OneEmotion)
    \/ WaitKey
    \/ ReleaseCamera
    \/ WriteReport
    \/ Tick
    \/ Dashboard

SpecDash == Init /\ [][NextDash]_vars

RowsWithRoll(r) == {i \in 1..Len(studentsCsv.rows) : studentsCsv.rows[i].roll_no = r}

\* C1: after completed registrations, web and CLI in any order, no two rows
\* of students.csv have the same roll number.
C1_UniqueRolls ==
    \A i, j \in 1..Len(studentsCsv.rows) :
        studentsCsv.rows[i].roll_no = studentsCsv.rows[j].roll_no => i = j

\* rows with an uploaded photo and with a .jpg photo are in the file, and a
\* further registration of a registered roll number has just been turned down
C1_Witness ==
    /\ Len(studentsCsv.rows) >= 2
    /\ \E i, j \in 1..Len(studentsCsv.rows) :
          /\ studentsCsv.rows[i].image_path # JoinPath(STUDENTS_DIR, studentsCsv.rows[i].roll_no \o JpgExt)
          /\ studentsCsv.rows[j].image_path = JoinPath(STUDENTS_DIR, studentsCsv.rows[j].roll_no \o JpgExt)
    /\ lastResp = "error_roll_registered"

\* two appends for one roll number whose scans both came before either append
Raced(a, b) ==
    /\ a < b
    /\ appendLog[a].roll_no = appendLog[b].roll_no
    /\ appendLog[b].scanned <= appendLog[a].at

\* C10: no protection against concurrent writers: when two registrations of
\* one unregistered roll number both scan students.csv before either appends,
\* both appends go in, both succeed, and the file has two rows for that roll.
C10_RaceDuplicates ==
    \A a, b \in 1..Len(appendLog) :
        Raced(a, b) =>
            /\ appendLog[a].ok /\ appendLog[b].ok
            /\ Cardinality(RowsWithRoll(appendLog[a].roll_no)) >= 2

\* two registrations with different photo files have raced on one roll
\* number, and so have two with the same photo file; all have completed
C10_Witness ==
    /\ \E a, b \in 1..Len(appendLog) :
          Raced(a, b) /\ appendLog[a].image_path # appendLog[b].image_path
    /\ \E a, b \in 1..Len(appendLog) :
          Raced(a, b) /\ appendLog[a].image_path = appendLog[b].image_path
    /\ \A p \in RegProcs : reg[p].pc = "idle"
    /\ lastResp = "success"

(***************************************************************************)
(* The session report.                                                     *)
(***************************************************************************)
Aborted == {"no_students", "no_cascade", "no_camera"}

\* the indexes of the lines of class_report.csv that run k appended
RunLines(k) == runs[k].from .. runs[k].to

RowLines == {i \in 1..Len(classReport.lines) : classReport.lines[i].kind = "row"}

\* the roll numbers of students.csv as run k loaded it
LoadedRolls(k) ==
    LET df == load_students([exists |-> TRUE, rows |-> runs[k].csv])
    IN  {df[i].roll_no : i \in 1..Len(df)}

\* C2: a run that writes a report appends exactly one row for each distinct
\* roll number of students.csv as loaded at its start, detected or not, and
\* no row for any other roll number.
C2_OneRowPerLoadedRoll ==
    \A k \in 1..Len(runs) :
        runs[k].exit = "report" =>
            /\ \A r \in LoadedRolls(k) :
                  Cardinality({i \in RunLines(k) : classReport.lines[i].roll_no = r}) = 1
            /\ \A i \in RunLines(k) :
                  /\ classReport.lines[i].kind = "row"
                  /\ classReport.lines[i].roll_no \in LoadedRolls(k)

\* one run loaded a single student, never detected, while another student
\* was being registered; a later run loaded two rows with one roll number
C2_Witness ==
    \E j, k \in 1..Len(runs) :
        /\ runs[j].exit = "report" /\ runs[k].exit = "report"
        /\ Len(runs[j].csv) = 1 /\ Len(runs[k].csv) = 2
        /\ Cardinality(LoadedRolls(k)) = 1
        /\ \A i \in RunLines(j) : classReport.lines[i].status = "Absent"
        /\ \E i \in RunLines(k) : classReport.lines[i].status = "Present"

\* C3: no two rows of class_report.csv have the same (Roll No, Session Date,
\* Session Time), and every row of a run carries the date and time captured
\* at the start of that run.
C3_UniqueSessionKey ==
    /\ \A i, j \in RowLines :
          (/\ classReport.lines[i].roll_no = classReport.lines[j].roll_no
           /\ classReport.lines[i].session_date = classReport.lines[j].session_date
           /\ classReport.lines[i].session_time = classReport.lines[j].session_time)
              => i = j
    /\ \A k \in 1..Len(runs) :
          runs[k].exit = "report" =>
              \A i \in RunLines(k) :
                  /\ classReport.lines[i].session_date = DateOf(runs[k].start)
                  /\ classReport.lines[i].session_time = TimeOf(runs[k].start)

IsPrefix(s, t) == Len(s) <= Len(t) /\ SubSeq(t, 1, Len(s)) = s

HeaderFirst(file) ==
    file.exists =>
        /\ Len(file.lines) >= 1
        /\ file.lines[1] = [kind |-> "header", columns |-> ReportColumns]
        /\ \A i \in 2..Len(file.lines) : file.lines[i].kind = "row"

\* C4: class_report.csv is append-only (what a run wrote stays, unchanged and
\* in order, after any later run), and the file has exactly one header line,
\* its first line, written by the run that created the file.
C4_AppendOnlyOneHeader ==
    [][/\ classReport.exists =>
            classReport'.exists /\ IsPrefix(classReport.lines, classReport'.lines)
       /\ HeaderFirst(classReport')]_vars

\* C5: a run writes class_report.csv exactly once, after its frame loop has
\* ended and the camera has been released; the file does not change while
\* the loop runs, and a run that aborts before the loop writes nothing.
C5_WriteOnceAtEnd ==
    [][/\ classReport' # classReport =>
            /\ sessPc = "report" /\ ~cameraOpen
            /\ runs[Len(runs)].writes = 0
       /\ (sessPc = "report" /\ sessPc' = "idle") =>
            /\ runs'[Len(runs')].writes = 1 /\ runs'[Len(runs')].exit = "report"
            /\ classReport'.exists
       /\ \A k \in 1..Len(runs') :
            /\ runs'[k].exit \in Aborted => runs'[k].writes = 0
            /\ runs'[k].exit = "running" => runs'[k].writes = 0]_vars

\* a run that aborted wrote nothing, and the run after it went through its
\* frames and wrote its rows
C5_Witness ==
    /\ sessPc = "idle"
    /\ Len(runs) = 2
    /\ runs[1].exit \in Aborted
    /\ runs[2].exit = "report" /\ runs[2].to >= runs[2].from
    /\ sess.total_frames >= PROCESS_EVERY_N_FRAMES

\* the run is past its frame loop
LoopOver == sessPc \in {"ended", "report"} \/ (sessPc = "idle" /\ runs # <<>>)

\* C6: '% Time Present (approx)' of every report row lies between 0 and 100:
\* at the end of a session frames_present of every student is at most
\* total_frames.
C6_PresentPctInRange ==
    /\ \A i \in RowLines :
          classReport.lines[i].present_pct >= 0 /\ classReport.lines[i].present_pct <= 10000
    /\ LoopOver =>
          \A r \in DOMAIN sess.attendance.info :
              sess.attendance.info[r].frames_present <= sess.total_frames

\* the latest run has written its report
Reported == sessPc = "idle" /\ runs # <<>> /\ runs[Len(runs)].exit = "report"

\* C7: Status is 'Present' exactly for the students matched to a face at
\* least once in the session (present flag true, frames_present > 0) and
\* 'Absent' otherwise; an 'Absent' row has both percentages 0.0 and Dominant
\* Emotion 'N/A'.
C7_StatusIffMatched ==
    Reported =>
        \A i \in RunLines(Len(runs)) :
            LET row == classReport.lines[i]
                info == sess.attendance.info[row.roll_no]
            IN  /\ row.status \in {"Present", "Absent"}
                /\ row.status = "Present" <=> seen[row.roll_no].matches > 0
                /\ row.status = "Present" <=> info.present
                /\ row.status = "Present" <=> info.frames_present > 0
                /\ row.status = "Absent" =>
                      /\ row.present_pct = 0 /\ row.attention_pct = 0
                      /\ row.emotion = "N/A"

\* a report with a student who was matched and one who was not
C7_Witness ==
    /\ Reported
    /\ \E i, j \in RunLines(Len(runs)) :
          /\ classReport.lines[i].status = "Present"
          /\ classReport.lines[j].status = "Absent"

FirstIndex(list, e) == CHOOSE i \in 1..Len(list) : list[i] = e /\ \A j \in 1..(i - 1) : list[j] # e

\* C8: the Dominant Emotion of a 'Present' row is a label recorded most often
\* for that student in the session, the one recorded first among those tied,
\* and 'unknown' when none was recorded; a label is recorded only when it is
\* not 'unknown', on a face matched to the student.
C8_DominantEmotion ==
    /\ \A r \in DOMAIN seen :
          /\ sess.attendance.info[r].dominant_emotions = seen[r].labels
          /\ \A n \in 1..Len(seen[r].labels) : seen[r].labels[n] # "unknown"
          /\ Len(seen[r].labels) <= seen[r].matches
    /\ Reported =>
          \A i \in RunLines(Len(runs)) :
              LET row == classReport.lines[i]
                  labels == seen[row.roll_no].labels
              IN  row.status = "Present" =>
                      IF labels = <<>> THEN row.emotion = "unknown"
                      ELSE /\ \E n \in 1..Len(labels) : labels[n] = row.emotion
                           /\ \A n \in 1..Len(labels) :
                                 \/ Count(labels, row.emotion) > Count(labels, labels[n])
                                 \/ /\ Count(labels, row.emotion) = Count(labels, labels[n])
                                    /\ FirstIndex(labels, row.emotion) <= FirstIndex(labels, labels[n])

\* a label recorded first loses to one recorded twice; in another student's
\* row two labels are tied; the faces with an unknown emotion left no label
C8_Witness ==
    /\ Reported
    /\ \E i \in RunLines(Len(runs)) :
          LET labels == seen[classReport.lines[i].roll_no].labels
          IN  /\ Len(labels) = 3
              /\ labels[1] # classReport.lines[i].emotion
    /\ \E r \in DOMAIN seen : seen[r].matches > Len(seen[r].labels)

\* C9: no dashboard route changes students.csv or class_report.csv, whatever
\* its query parameters, and download_reports answers 404, creating no file,
\* when class_report.csv does not exist.  (A request shows as a change of
\* dashResp; the routes do not read dashResp, so a request that repeats the
\* previous response acts on the files as it does from any other state.)
C9_DashboardReadOnly ==
    [][dashResp' # dashResp =>
          /\ studentsCsv' = studentsCsv
          /\ classReport' = classReport
          /\ (dashResp'.route = "download_reports" /\ ~classReport.exists) =>
                (dashResp'.status = 404 /\ ~classReport'.exists)]_vars

\* a download refused for want of a report, with students registered
C9_Witness ==
    /\ dashResp.route = "download_reports" /\ dashResp.status = 404
    /\ ~classReport.exists
    /\ studentsCsv.rows # <<>>

(***************************************************************************)
(* Rejections of the web registration.                                     *)
(***************************************************************************)
\* the rejections app.py register flashes
WebRejections ==
    {"error_required", "error_email_required", "error_phone_required",
     "error_phone_digits", "error_roll_registered", "error_email_registered",
     "error_phone_registered", "error_photo"}

\* some row has the roll number, the e-mail (not empty, whatever the case of
\* its letters) or the phone (not empty) of request q
SomeRowMatches(rows, q) ==
    \E i \in 1..Len(rows) :
        \/ rows[i].roll_no = q.roll_no
        \/ q.email # <<>> /\ Lower(rows[i].email) = Lower(q.email)
        \/ q.phone # <<>> /\ rows[i].phone = q.phone

\* the step answers a web POST (lastReq' is its request)
WebPostAnswered ==
    /\ lastReq'.path = "web"
    /\ <<lastReq', lastResp'>> # <<lastReq, lastResp>>
    /\ lastResp' \in WebRejections \cup {"pending"}

\* C11: a web POST is rejected, and appends no row, whenever some row of
\* students.csv has its roll number, its e-mail (not empty, compared without
\* case) or its phone (not empty); it passes the uniqueness checks only when
\* no row matches on any of the three.
C11_RejectedOnAnyMatch ==
    [][WebPostAnswered =>
          /\ SomeRowMatches(studentsCsv.rows, lastReq') =>
                /\ lastResp' \in WebRejections
                /\ studentsCsv'.rows = studentsCsv.rows
                /\ reg' = reg
          /\ lastResp' \in {"pending", "error_photo"} =>
                ~SomeRowMatches(studentsCsv.rows, lastReq')]_vars

\* a POST with a roll number and a phone of its own has been turned down for
\* its e-mail, which a row holds in another case
C11_Witness ==
    /\ lastReq.path = "web"
    /\ lastResp = "error_email_registered"
    /\ \E i \in 1..Len(studentsCsv.rows) :
          /\ studentsCsv.rows[i].email # lastReq.email
          /\ Lower(studentsCsv.rows[i].email) = Lower(lastReq.email)
    /\ \A i \in 1..Len(studentsCsv.rows) :
          /\ studentsCsv.rows[i].roll_no # lastReq.roll_no
          /\ studentsCsv.rows[i].phone # lastReq.phone

(***************************************************************************)
(* Identification.                                                         *)
(***************************************************************************)
\* the rows identify_student can use: the image is there and the
\* verification answered with a distance
Usable(df, imgs, verify) ==
    {i \in 1..Len(df) : df[i].image_path \in imgs /\ verify[i].kind = "distance"}

\* the earliest of the usable rows at the smallest distance
Nearest(df, imgs, verify) ==
    CHOOSE i \in Usable(df, imgs, verify) :
        \A j \in Usable(df, imgs, verify) :
            \/ verify[i].distance < verify[j].distance
            \/ verify[i].distance = verify[j].distance /\ i <= j

\* C12: identify_student returns the roll number of the student at the
\* smallest distance among the rows whose image exists and whose verification
\* gave a distance, the earliest row winning ties, when that distance is
\* strictly below FACE_MATCH_THRESHOLD, and None in every other case.
C12_NearestBelowThreshold ==
    [][lastId' # lastId =>
          LET df == sess.students_df
              verify == lastId'.verify
          IN  IF /\ Usable(df, images, verify) # {}
                 /\ verify[Nearest(df, images, verify)].distance < FACE_MATCH_THRESHOLD
              THEN /\ lastId'.returned.found
                   /\ lastId'.returned.roll_no = df[Nearest(df, images, verify)].roll_no
              ELSE ~lastId'.returned.found]_vars

\* the student returned was tied with a later row, and a row whose image is
\* missing had a smaller distance
C12_Witness ==
    /\ lastId.returned.found
    /\ \E i, j, k \in 1..Len(sess.students_df) :
          /\ i < j
          /\ sess.students_df[i].roll_no = lastId.returned.roll_no
          /\ {i, j} \subseteq Usable(sess.students_df, images, lastId.verify)
          /\ lastId.verify[i].distance = lastId.verify[j].distance
          /\ sess.students_df[k].image_path \notin images
          /\ lastId.verify[k].kind = "distance"
          /\ lastId.verify[k].distance < lastId.verify[i].distance

(***************************************************************************)
(* The heavy frames.                                                       *)
(***************************************************************************)
\* the frame being processed (the frames are counted from 1) is an Nth frame
NthFrame == sess.total_frames % PROCESS_EVERY_N_FRAMES = 0

\* C13: the attendance dictionary changes only on frames whose 1-based index
\* is a multiple of PROCESS_EVERY_N_FRAMES; on such a frame every detected
\* face is analysed and identified, and on every other frame no face is
\* identified and the dictionary is left as it is.
C13_HeavyEveryNth ==
    [][/\ (sessPc \in {"loop", "faces"} /\ sess'.attendance # sess.attendance) =>
            sessPc = "faces" /\ NthFrame
       /\ (sessPc = "faces" /\ sess'.faces_left # sess.faces_left) =>
            /\ sess'.faces_left = sess.faces_left - 1
            /\ IF NthFrame
               THEN /\ lastId'.frame = sess.total_frames
                    /\ lastId'.face = sess.faces_left
               ELSE lastId' = lastId /\ sess'.attendance = sess.attendance
       /\ (sessPc = "faces" /\ sessPc' # "faces") => sess.faces_left = 0]_vars

\* the two faces of frame 3 have been identified, both as one student
C13_Witness ==
    /\ sessPc = "faces"
    /\ sess.total_frames = PROCESS_EVERY_N_FRAMES
    /\ sess.faces_left = 0
    /\ lastId.frame = PROCESS_EVERY_N_FRAMES /\ lastId.face = 1
    /\ \E r \in DOMAIN sess.attendance.info :
          sess.attendance.info[r].frames_present = 2

(***************************************************************************)
(* The teacher portal.                                                     *)
(***************************************************************************)
\* C14: the portal shows 'Class session finished. Report updated.' only
\* after a run of main.py that appended its rows to class_report.csv; a run
\* that ended without writing a report leads to the error dialog, never to
\* that message.
C14_ReportUpdatedOnlyAfterReport ==
    /\ portal.dialog = "info" =>
          /\ runs # <<>>
          /\ runs[Len(runs)].exit = "report" /\ runs[Len(runs)].writes = 1
    /\ (portal.pc = "idle" /\ runs # <<>> /\ runs[Len(runs)].exit \in Aborted) =>
          portal.dialog = "error"

(***************************************************************************)
(* The home page of the dashboard.                                         *)
(***************************************************************************)
\* the number of rows of class_report.csv of the date with the status
RowsOn(date, status) ==
    Cardinality({i \in RowLines : /\ classReport.lines[i].session_date = date
                                  /\ classReport.lines[i].status = status})

\* C15: the home page shows present_count equal to the number of rows of
\* class_report.csv dated today with Status 'Present' and absent_count equal
\* to the number dated today with Status 'Absent'; with no row dated today,
\* present_count is 0 and absent_count is the number of rows of students.csv.
C15_HomeCounts ==
    [][(dashResp' # dashResp /\ dashResp'.route = "home" /\ dashResp'.status = 200) =>
          LET today == DateOf(now)
              body == dashResp'.body
          IN  IF RowsOn(today, "Present") + RowsOn(today, "Absent") > 0
              THEN /\ body.present_count = RowsOn(today, "Present")
                   /\ body.absent_count = RowsOn(today, "Absent")
              ELSE /\ body.present_count = 0
                   /\ body.absent_count = Len(studentsCsv.rows)]_vars

(***************************************************************************)
(* The photo and the row.                                                  *)
(***************************************************************************)
\* C16: a web POST that is rejected leaves the rows of students.csv as they
\* are and saves no image file; a row is appended only after the photo has
\* been saved, so every row appended by either registration path names an
\* image file that was written before the row.
C16_PhotoBeforeRow ==
    [][/\ (WebPostAnswered /\ lastResp' \in WebRejections) =>
            /\ studentsCsv'.rows = studentsCsv.rows
            /\ images' = images
            /\ reg' = reg
       /\ studentsCsv'.rows # studentsCsv.rows =>
            /\ Len(studentsCsv'.rows) = Len(studentsCsv.rows) + 1
            /\ IsPrefix(studentsCsv.rows, studentsCsv'.rows)
            /\ studentsCsv'.rows[Len(studentsCsv'.rows)].image_path \in images]_vars

(***************************************************************************)
(* The counters of a student.                                              *)
(***************************************************************************)
\* C17: in every state of a session, for every student, frames_attentive is
\* at most frames_present and the present flag is true exactly when
\* frames_present is greater than 0; hence '% Time Attentive' of every
\* report row lies between 0 and 100.
C17_AttentiveWithinPresent ==
    /\ \A r \in DOMAIN sess.attendance.info :
          LET info == sess.attendance.info[r]
          IN  /\ 0 <= info.frames_attentive
              /\ info.frames_attentive <= info.frames_present
              /\ info.present <=> info.frames_present > 0
    /\ \A i \in RowLines :
          /\ classReport.lines[i].attention_pct >= 0
          /\ classReport.lines[i].attention_pct <= 10000

\* a report with a student who was attentive on some of the faces matched
\* to them, not on all, and a student who was never matched
C17_Witness ==
    /\ Reported
    /\ \E i, j \in RunLines(Len(runs)) :
          /\ classReport.lines[i].attention_pct > 0
          /\ classReport.lines[i].attention_pct < 10000
          /\ sess.attendance.info[classReport.lines[i].roll_no].frames_attentive >= 1
          /\ ~sess.attendance.info[classReport.lines[j].roll_no].present
====
